---------------------------- MODULE Spec2Model ----------------------------
(***************************************************************************)
(* Model of the Opportunity Center chat backend (backend/main.py with its  *)
(* collaborators backend/llm_model.py and backend/database.py).            *)
(*                                                                         *)
(* The chat endpoints are plain `def` handlers, so FastAPI runs each       *)
(* request on a worker thread: Procs are those threads, and a handler is   *)
(* a sequence of steps, one per access to the two process-wide maps.       *)
(* Spec lets the threads interleave; SeqSpec runs one request at a time.   *)
(*                                                                         *)
(* Text is a sequence of atoms: a character, or a fixed literal of the     *)
(* source (an f-string piece) kept as one atom.                            *)
(***************************************************************************)
EXTENDS Integers, Sequences, FiniteSets, TLC

\* ------------------------------------------------------------- bounds
\* requests started in one behaviour
MaxReqs == 2
\* the latest reading of datetime.utcnow()
MaxClock == 1
\* length of a pre-existing conversation in HistSpec
MaxHist == 12
\* conversations a user holds at the start of ListSpec
MaxConvs == 3
\* whitespace around, and characters beyond TitleMax in, an argument of
\* _derive_title
MaxPad == 2

\* ---------------------------------------------------- program constants
\* cleaned[:60]
TitleMax == 60
\* history[-10:]
HistWindow == 10
\* get_relevant_faqs(query, limit=3)
FaqLimit == 3

\* ------------------------------------------------------------ universe
Procs == {1, 2}
Users == {"alice", "bob"}
\* a request without the X-User-Id header
NoUser == ""
\* SendMessageRequest.conversationId when absent, and when the empty string
NoneId == "None"
EmptyId == ""
\* an id the client made up
BogusId == "bogus"

\* uuid4(): the n-th identifier handed out, never one handed out before
UuidNames == <<"c1", "c2", "c3", "c4", "c5", "c6", "c7", "c8">>
Uuid(n) == UuidNames[n]

Min(a, b) == IF a < b THEN a ELSE b
Max(a, b) == IF a > b THEN a ELSE b

\* ---------------------------------------------------------------- text
Whitespace == {" ", "\n", "\t"}

RECURSIVE LStrip(_)
LStrip(s) ==
    IF s # <<>> /\ Head(s) \in Whitespace THEN LStrip(Tail(s)) ELSE s

RECURSIVE RStrip(_)
RStrip(s) ==
    IF s # <<>> /\ s[Len(s)] \in Whitespace
    THEN RStrip(SubSeq(s, 1, Len(s) - 1))
    ELSE s

\* str.strip()
Strip(s) == RStrip(LStrip(s))

NewConversation ==
    <<"N", "e", "w", " ", "C", "o", "n", "v", "e", "r", "s", "a", "t", "i", "o", "n">>

Ellipsis == <<".", ".", ".">>

\* _derive_title cutting without the "..."
DeriveTitleNoEllipsis(text) ==
    LET cleaned == Strip(text) IN
    IF cleaned = <<>>
    THEN NewConversation
    ELSE SubSeq(cleaned, 1, Min(TitleMax, Len(cleaned)))

\* _derive_title
DeriveTitle(text) ==
    LET cleaned == Strip(text) IN
    IF cleaned = <<>>
    THEN NewConversation
    ELSE SubSeq(cleaned, 1, Min(TitleMax, Len(cleaned)))
         \o (IF Len(cleaned) > TitleMax THEN Ellipsis ELSE <<>>)

\* "\n".join(lines)
RECURSIVE JoinLines(_)
JoinLines(lines) ==
    IF lines = <<>> THEN <<>>
    ELSE IF Len(lines) = 1 THEN lines[1]
    ELSE lines[1] \o <<"\n">> \o JoinLines(Tail(lines))

\* ------------------------------------------------------ dict operations
EmptyDict == [k \in {} |-> 0]

\* d[k] = v
Put(d, k, v) == [x \in (DOMAIN d) \cup {k} |-> IF x = k THEN v ELSE d[x]]

\* d.pop(k, None)
Pop(d, k) == [x \in (DOMAIN d) \ {k} |-> d[x]]

\* d.setdefault(k, {}) as the new value of d
SetDefault(d, k) == IF k \in DOMAIN d THEN d ELSE Put(d, k, EmptyDict)

\* d.get(k, default)
Get(d, k, default) == IF k \in DOMAIN d THEN d[k] ELSE default


\* ------------------------------------------------------------ messages
\* a ChatMessage that does not record its conversation
ChatMessageNoConversation(id, content, role, timestamp, conversationId) ==
    [id |-> id, content |-> content, role |-> role,
     timestamp |-> timestamp, conversationId |-> NoneId]

\* ChatMessage
ChatMessage(id, content, role, timestamp, conversationId) ==
    [id |-> id, content |-> content, role |-> role,
     timestamp |-> timestamp, conversationId |-> conversationId]

NoMessage == ChatMessage(0, <<>>, "none", <<>>, NoneId)

\* ----------------------------------------------------- FAQ retrieval
\* rows of the faqs table
Faq1 == [question |-> <<"q", "1">>, answer |-> <<"a", "1">>]
Faq2 == [question |-> <<"q", "2">>, answer |-> <<"a", "2">>]

\* what the database does with the SELECT: it raises, or returns rows
DbOutcomes ==
    { [ok |-> FALSE, rows |-> <<>>],
      [ok |-> TRUE, rows |-> <<>>],
      [ok |-> TRUE, rows |-> <<Faq1>>],
      [ok |-> TRUE, rows |-> <<Faq2, Faq1>>] }

\* get_relevant_faqs answering with a stock record when the query raised
GetRelevantFaqsFallback(db, limit) ==
    IF db.ok THEN SubSeq(db.rows, 1, Min(limit, Len(db.rows))) ELSE <<Faq1>>

\* get_relevant_faqs: the rows, at most limit of them; [] when the query raised
GetRelevantFaqs(db, limit) ==
    IF db.ok THEN SubSeq(db.rows, 1, Min(limit, Len(db.rows))) ELSE <<>>

RECURSIVE FaqLines(_)
FaqLines(faqs) ==
    IF faqs = <<>> THEN <<>>
    ELSE <<"- ">> \o faqs[1].question \o <<": ">> \o faqs[1].answer \o <<"\n">>
         \o FaqLines(Tail(faqs))

FaqHeader == "Relevant information from the Opportunity Center:\n"

\* augment_prompt_with_context putting the FAQ block after the context
AugmentPromptWithContextAfter(db, conversation_history) ==
    LET faqs == GetRelevantFaqs(db, FaqLimit) IN
    IF faqs = <<>>
    THEN conversation_history
    ELSE conversation_history \o <<"\n", FaqHeader>> \o FaqLines(faqs)

\* augment_prompt_with_context
AugmentPromptWithContext(db, conversation_history) ==
    LET faqs == GetRelevantFaqs(db, FaqLimit) IN
    IF faqs = <<>>
    THEN conversation_history
    ELSE <<FaqHeader>> \o FaqLines(faqs) \o <<"\n">> \o conversation_history

\* ----------------------------------------------------- prompt assembly
SystemText == "You are a helpful assistant for the Opportunity Center. Provide a single concise answer to the most recent user question. Do not invent or ask questions. Reply with only the answer text, no prefixes or labels. Keep replies under 80 words."

\* the whole history where the code takes history[-10:]
RecentHistoryAll(history) == history

\* history[-10:]
RecentHistory(history) ==
    SubSeq(history, Max(1, Len(history) - HistWindow + 1), Len(history))

\* the first user message of the window where the code takes the last
LatestContentFirst(recent) ==
    LET idx == {i \in 1..Len(recent) : recent[i].role = "user"} IN
    IF idx = {} THEN <<>>
    ELSE recent[CHOOSE i \in idx : \A j \in idx : i <= j].content

\* next(msg for msg in reversed(recent_history) if msg.role == "user"), as
\* its content; "" when there is none
LatestContent(recent) ==
    LET idx == {i \in 1..Len(recent) : recent[i].role = "user"} IN
    IF idx = {} THEN <<>>
    ELSE recent[CHOOSE i \in idx : \A j \in idx : j <= i].content

HistoryLine(msg) ==
    <<IF msg.role = "user" THEN "User" ELSE "Assistant", ": ">> \o msg.content

HistoryLines(recent) == [i \in 1..Len(recent) |-> HistoryLine(recent[i])]

ConversationContext(recent) ==
    <<"Recent conversation:\n">> \o JoinLines(HistoryLines(recent))
    \o <<"\n\n",
         "Answer the latest user question once. Do not add new questions.\n",
         "Latest question: ">>
    \o LatestContent(recent)
    \o <<"\n", "Answer:">>

\* _build_prompt, given the list read from the store and the database's answer
BuildPrompt(history, db) ==
    LET recent == RecentHistory(history) IN
    <<SystemText, "\n\n">> \o AugmentPromptWithContext(db, ConversationContext(recent))

\* --------------------------------------------------- generation client
AnswerCue == "Answer:"

\* what the generation backend does with the POST: it fails (transport error
\* or non-success status), or answers with a response text
BackendOutcomes ==
    { [ok |-> FALSE, response |-> <<>>],
      [ok |-> TRUE, response |-> <<"o", "k">>],
      [ok |-> TRUE, response |-> <<" ", AnswerCue, " ", "o", "k", "\n">>] }

\* reply_text.split(strip_after, 1)[1] when strip_after is in reply_text
StripAfter(reply, marker) ==
    LET idx == {i \in 1..Len(reply) : reply[i] = marker} IN
    IF idx = {} THEN reply
    ELSE Strip(SubSeq(reply, (CHOOSE i \in idx : \A j \in idx : i <= j) + 1, Len(reply)))

\* generate_text raising ValueError where it raises Exception
GenerateTextValueError(prompt, backend) ==
    IF prompt = <<>> \/ ~backend.ok
    THEN [kind |-> "ValueError", text |-> <<>>, calls |-> IF prompt = <<>> THEN 0 ELSE 1]
    ELSE [kind |-> "ok", text |-> <<"o", "k">>, calls |-> 1]

\* generate_text posting once more after a failed request
GenerateTextRetry(prompt, backend) ==
    IF prompt = <<>>
    THEN [kind |-> "ValueError", text |-> <<>>, calls |-> 0]
    ELSE IF ~backend.ok
    THEN [kind |-> "Exception", text |-> <<>>, calls |-> 2]
    ELSE [kind |-> "ok", text |-> StripAfter(Strip(backend.response), AnswerCue),
          calls |-> 1]

\* generate_text with wrap_prompt=False, strip_after="Answer:": the result
\* [kind, text, calls]; calls counts the requests sent to the backend
GenerateText(prompt, backend) ==
    IF prompt = <<>>
    THEN [kind |-> "ValueError", text |-> <<>>, calls |-> 0]
    ELSE IF ~backend.ok
    THEN [kind |-> "Exception", text |-> <<>>, calls |-> 1]
    ELSE [kind |-> "ok", text |-> StripAfter(Strip(backend.response), AnswerCue),
          calls |-> 1]


\* ----------------------------------------------------------- timestamps
Digits == <<"0", "1", "2", "3", "4", "5", "6", "7", "8", "9">>

\* datetime.isoformat(): a fixed-width rendering, most significant digit first
IsoFormat(t) == <<Digits[(t \div 10) + 1], Digits[(t % 10) + 1]>>

DigitRank(c) == CHOOSE i \in 1..Len(Digits) : Digits[i] = c

\* a < b on str
RECURSIVE StrLess(_, _)
StrLess(a, b) ==
    IF b = <<>> THEN FALSE
    ELSE IF a = <<>> THEN TRUE
    ELSE IF Head(a) = Head(b) THEN StrLess(Tail(a), Tail(b))
    ELSE DigitRank(Head(a)) < DigitRank(Head(b))

\* ---------------------------------------------------------------- state
VARIABLES
    conversation_messages,  \* user id -> conversation id -> list of ChatMessage
    conversation_metadata,  \* user id -> conversation id -> {title, created_at, updated_at}
    clock,                  \* the last reading of datetime.utcnow()
    uuids,                  \* conversation ids handed out by uuid4()
    msgids,                 \* message ids handed out by uuid4()
    pc,                     \* per worker thread: where its handler stands
    req,                    \* per worker thread: the handler's locals
    resp,                   \* per worker thread: the response of the finished handler
    pre,                    \* per worker thread: the two maps when its request began,
                            \* kept while no other request has been in progress
    nreq,                   \* requests started so far
    call,                   \* a function called on its own: its argument and result
    users_table,            \* the users table: email -> stored password
    registered              \* email -> the password its registration succeeded with

vars == <<conversation_messages, conversation_metadata, clock, uuids, msgids,
          pc, req, resp, pre, nreq, call, users_table, registered>>

\* what the chat endpoints do not touch
aside == <<call, users_table, registered>>

\* what the auth endpoints do not touch
chat == <<conversation_messages, conversation_metadata, clock, uuids, msgids,
          pc, req, resp, pre, nreq>>

store == <<conversation_messages, conversation_metadata>>

IdleReq ==
    [op |-> "none", user |-> NoUser, cid |-> NoneId, text |-> <<>>,
     conv |-> NoneId, created |-> FALSE, role |-> "none", content |-> <<>>,
     message |-> NoMessage, history |-> <<>>,
     db_failed |-> FALSE, faqs |-> <<>>, prompt |-> <<>>, calls |-> 0, failed |-> FALSE]

NoResp ==
    [status |-> 0, message |-> NoMessage, messages |-> <<>>,
     summaries |-> <<>>, conversationId |-> NoneId]

\* no function is called on its own
NoCall ==
    [fn |-> "none", arg |-> <<>>, env |-> <<>>, result |-> <<>>, returned |-> FALSE]

NoSnapshot == [msgs |-> EmptyDict, meta |-> EmptyDict, alone |-> FALSE]

Snapshot ==
    [msgs |-> conversation_messages, meta |-> conversation_metadata, alone |-> TRUE]

Init ==
    /\ conversation_messages = EmptyDict
    /\ conversation_metadata = EmptyDict
    /\ clock = 0
    /\ uuids = 0
    /\ msgids = 0
    /\ pc = [p \in Procs |-> "idle"]
    /\ req = [p \in Procs |-> IdleReq]
    /\ resp = [p \in Procs |-> NoResp]
    /\ pre = [p \in Procs |-> NoSnapshot]
    /\ nreq = 0
    /\ call = NoCall
    /\ users_table = EmptyDict
    /\ registered = EmptyDict

\* ------------------------------------------------------ request inputs
\* conversation ids a client can know: the ones handed out so far
IssuedIds == {Uuid(n) : n \in 1..uuids}

\* SendMessageRequest.conversationId
BodyIds == {NoneId, EmptyId, BogusId} \cup IssuedIds

\* the {conversation_id} path parameter
PathIds == {BogusId} \cup IssuedIds

\* X-User-Id
HeaderUsers == Users \cup {NoUser}

LongText == [i \in 1..(TitleMax + 1) |-> "x"]

\* SendMessageRequest.message
SendTexts ==
    { <<"h", "i">>,
      <<" ">> \o NewConversation \o <<"\n">>,
      <<" ", "\t">>,
      LongText }

\* `if conversation_id` on Optional[str]
Truthy(cid) == cid # NoneId /\ cid # EmptyId


\* ------------------------------------------------------- store helpers
\* the metadata record _create_conversation writes
NewMeta(first_user_message, now) ==
    [title |-> DeriveTitle(first_user_message), created_at |-> now, updated_at |-> now]

\* _ensure_conversation looking the id up under every user
EnsureExistsAnyUser(user_meta, cid) ==
    /\ Truthy(cid)
    /\ \E u \in DOMAIN conversation_metadata : cid \in DOMAIN conversation_metadata[u]

\* _ensure_conversation's test: `conversation_id and conversation_id in user_meta`
EnsureExists(user_meta, cid) == Truthy(cid) /\ cid \in DOMAIN user_meta

\* _store_message leaving updated_at alone
StoreMetaNoTouch(meta, role, content, now) ==
    [meta EXCEPT
       !.title = IF role = "user" /\ (meta.title = <<>> \/ meta.title = NewConversation)
                 THEN DeriveTitle(content)
                 ELSE meta.title]

\* _store_message's update of the metadata record
StoreMeta(meta, role, content, now) ==
    [meta EXCEPT
       !.updated_at = now,
       !.title = IF role = "user" /\ (meta.title = <<>> \/ meta.title = NewConversation)
                 THEN DeriveTitle(content)
                 ELSE meta.title]

\* clear_conversation_messages putting the placeholder title back
ClearMetaTitle(meta, now) ==
    [meta EXCEPT !.updated_at = now, !.title = NewConversation]

\* clear_conversation_messages taking updated_at back to the creation time
ClearMetaReset(meta, now) == [meta EXCEPT !.updated_at = meta.created_at]

\* clear_conversation_messages' update of the metadata record
ClearMeta(meta, now) == [meta EXCEPT !.updated_at = now]

\* datetime.utcnow(): the readings it may give now, none before the last one
UtcNow == clock..MaxClock

\* `conversation_id not in user_messages` of _store_message
StoreNotFound(user_messages, conversation_id) ==
    conversation_id \notin DOMAIN user_messages

\* `conversation_id not in user_messages` of get_conversation
GetNotFound(user_messages, conversation_id) ==
    conversation_id \notin DOMAIN user_messages

\* delete_conversation without its test
DeleteNeverNotFound(user_meta, conversation_id) == FALSE

\* `conversation_id not in user_meta` of delete_conversation
DeleteNotFound(user_meta, conversation_id) ==
    conversation_id \notin DOMAIN user_meta

\* clear_conversation_messages looking the id up under every user
ClearNotFoundAnyUser(user_meta, conversation_id) ==
    \A u \in DOMAIN conversation_metadata :
      conversation_id \notin DOMAIN conversation_metadata[u]

\* `conversation_id not in user_meta` of clear_conversation_messages
ClearNotFound(user_meta, conversation_id) ==
    conversation_id \notin DOMAIN user_meta

\* ------------------------------------------------------ handler plumbing
Begin(p) == pc[p] = "idle" /\ nreq < MaxReqs

\* the handler returns, or raises: the response is fixed
Finish(p, r) ==
    /\ pc' = [pc EXCEPT ![p] = "done"]
    /\ resp' = [resp EXCEPT ![p] = r]

Error(status) == [NoResp EXCEPT !.status = status]

Goto(p, label) ==
    /\ pc' = [pc EXCEPT ![p] = label]
    /\ UNCHANGED resp

\* no other request is in progress
Alone(p) == \A q \in Procs \ {p} : pc[q] = "idle"

Started(p) ==
    /\ nreq' = nreq + 1
    /\ pre' = [q \in Procs |-> IF q = p /\ Alone(p) THEN Snapshot ELSE NoSnapshot]

\* ------------------------------------------- POST /api/chat/message
\* chat_with_llm up to _ensure_conversation's test
SendBegin(p) ==
    /\ Begin(p)
    /\ Started(p)
    /\ \E user \in HeaderUsers, raw \in SendTexts, cid \in BodyIds :
         LET message_text == Strip(raw)
             r == [IdleReq EXCEPT !.op = "send", !.user = user, !.cid = cid,
                                  !.text = message_text]
         IN
         IF user = NoUser \/ message_text = <<>>
         THEN /\ Finish(p, Error(400))
              /\ req' = [req EXCEPT ![p] = [IdleReq EXCEPT !.op = "send"]]
              /\ UNCHANGED store
         ELSE LET metadata == SetDefault(conversation_metadata, user) IN
              /\ conversation_metadata' = metadata
              /\ UNCHANGED conversation_messages
              /\ IF EnsureExists(metadata[user], cid)
                 THEN /\ Goto(p, "store_check")
                      /\ req' = [req EXCEPT ![p] =
                                   [r EXCEPT !.conv = cid, !.role = "user",
                                             !.content = message_text]]
                 ELSE /\ Goto(p, "create_meta")
                      /\ req' = [req EXCEPT ![p] = r]
    /\ UNCHANGED <<clock, uuids, msgids>>
    /\ UNCHANGED aside

\* _create_conversation up to the write of the metadata record
CreateMeta(p) ==
    /\ pc[p] = "create_meta"
    /\ LET user == req[p].user
           conv_id == Uuid(uuids + 1)
           metadata == SetDefault(conversation_metadata, user)
       IN
       \E now \in UtcNow :
         /\ clock' = now
         /\ conversation_metadata' =
              [metadata EXCEPT ![user] = Put(@, conv_id, NewMeta(req[p].text, now))]
         /\ conversation_messages' = SetDefault(conversation_messages, user)
         /\ uuids' = uuids + 1
         /\ req' = [req EXCEPT ![p].conv = conv_id, ![p].created = TRUE]
    /\ Goto(p, "create_msgs")
    /\ UNCHANGED <<msgids, pre, nreq>>
    /\ UNCHANGED aside

\* _create_conversation: user_messages[conv_id] = []
CreateMsgs(p) ==
    /\ pc[p] = "create_msgs"
    /\ conversation_messages' =
         [conversation_messages EXCEPT ![req[p].user] = Put(@, req[p].conv, <<>>)]
    \* req.conversationId is not read again
    /\ req' = [req EXCEPT ![p].role = "user", ![p].content = req[p].text,
                          ![p].cid = NoneId]
    /\ Goto(p, "store_check")
    /\ UNCHANGED <<conversation_metadata, clock, uuids, msgids, pre, nreq>>
    /\ UNCHANGED aside

\* _store_message up to the construction of the ChatMessage
StoreCheck(p) ==
    /\ pc[p] = "store_check"
    /\ LET user == req[p].user
           messages == SetDefault(conversation_messages, user)
       IN
       /\ conversation_messages' = messages
       /\ conversation_metadata' = SetDefault(conversation_metadata, user)
       /\ IF StoreNotFound(messages[user], req[p].conv)
          THEN /\ Finish(p, Error(404))
               /\ UNCHANGED <<req, msgids, clock>>
          ELSE \E now \in UtcNow :
               /\ clock' = now
               /\ Goto(p, "store_append")
               /\ msgids' = msgids + 1
               /\ req' = [req EXCEPT ![p].message =
                            ChatMessage(msgids + 1, req[p].content, req[p].role,
                                        IsoFormat(now), req[p].conv)]
    /\ UNCHANGED <<uuids, pre, nreq>>
    /\ UNCHANGED aside

\* _store_message: user_messages[conversation_id].append(message)
StoreAppend(p) ==
    /\ pc[p] = "store_append"
    /\ LET user == req[p].user IN
       IF req[p].conv \notin DOMAIN conversation_messages[user]
       THEN \* KeyError
            /\ Finish(p, Error(500))
            /\ UNCHANGED conversation_messages
       ELSE /\ Goto(p, "store_meta")
            /\ conversation_messages' =
                 [conversation_messages EXCEPT ![user][req[p].conv] =
                    Append(@, req[p].message)]
    /\ UNCHANGED <<conversation_metadata, clock, uuids, msgids, req, pre, nreq>>
    /\ UNCHANGED aside

\* _store_message from `meta = user_meta[conversation_id]` to its return, and
\* for the assistant's message chat_with_llm's return
StoreUpdate(p) ==
    /\ pc[p] = "store_meta"
    /\ LET user == req[p].user
           conv == req[p].conv
       IN
       IF conv \notin DOMAIN conversation_metadata[user]
       THEN \* KeyError
            /\ Finish(p, Error(500))
            /\ UNCHANGED <<conversation_metadata, clock>>
       ELSE \E now \in UtcNow :
            /\ clock' = now
            /\ conversation_metadata' =
                 [conversation_metadata EXCEPT ![user][conv] =
                    StoreMeta(@, req[p].role, req[p].content, now)]
            /\ IF req[p].role = "user"
               THEN Goto(p, "build")
               ELSE Finish(p, [NoResp EXCEPT !.status = 200,
                                             !.message = req[p].message,
                                             !.conversationId = conv])
    /\ UNCHANGED <<conversation_messages, uuids, msgids, req, pre, nreq>>
    /\ UNCHANGED aside

\* _build_prompt
Assemble(p) ==
    /\ pc[p] = "build"
    /\ \E db \in DbOutcomes :
         LET user == req[p].user
             messages == SetDefault(conversation_messages, user)
             history == Get(messages[user], req[p].conv, <<>>)
         IN
         /\ conversation_messages' = messages
         /\ req' = [req EXCEPT ![p].history = history,
                               ![p].db_failed = ~db.ok,
                               ![p].faqs = GetRelevantFaqs(db, FaqLimit),
                               ![p].prompt = BuildPrompt(history, db)]
    /\ Goto(p, "generate")
    /\ UNCHANGED <<conversation_metadata, clock, uuids, msgids, pre, nreq>>
    /\ UNCHANGED aside

\* generate_text and chat_with_llm's except clauses
Generate(p) ==
    /\ pc[p] = "generate"
    /\ \E backend \in BackendOutcomes :
         LET result == GenerateText(req[p].prompt, backend) IN
         /\ IF result.kind = "ok"
            THEN /\ Goto(p, "store_check")
                 /\ req' = [req EXCEPT ![p].role = "assistant",
                                       ![p].content = result.text,
                                       ![p].calls = @ + result.calls,
                                       ![p].failed = FALSE,
                                       ![p].history = <<>>,
                                       ![p].db_failed = FALSE,
                                       ![p].faqs = <<>>,
                                       ![p].prompt = <<>>]
            ELSE /\ Finish(p, Error(IF result.kind = "ValueError" THEN 400 ELSE 500))
                 /\ req' = [req EXCEPT ![p].calls = @ + result.calls,
                                       ![p].failed = TRUE,
                                       ![p].history = <<>>,
                                       ![p].db_failed = FALSE,
                                       ![p].faqs = <<>>,
                                       ![p].prompt = <<>>]
    /\ UNCHANGED <<store, clock, uuids, msgids, pre, nreq>>
    /\ UNCHANGED aside


\* ------------------------------------------------------------ summaries
\* _conversation_summary, for a conversation id in user_meta
ConversationSummary(user_meta, user_messages, conversation_id) ==
    LET meta == user_meta[conversation_id]
        messages == Get(user_messages, conversation_id, <<>>)
        users == {i \in 1..Len(messages) : messages[i].role = "user"}
        title ==
            IF (meta.title = <<>> \/ meta.title = NewConversation) /\ users # {}
            THEN DeriveTitle(messages[CHOOSE i \in users : \A j \in users : i <= j].content)
            ELSE meta.title
    IN
    [id |-> conversation_id,
     title |-> IF title = <<>> THEN <<"Conversation">> ELSE title,
     createdAt |-> IsoFormat(meta.created_at),
     updatedAt |-> IsoFormat(meta.updated_at),
     messageCount |-> Len(messages)]

\* the keys of a user's metadata dict in insertion order: a key is inserted
\* when its uuid is handed out and never again
RECURSIVE KeysUpTo(_, _)
KeysUpTo(user_meta, n) ==
    IF n = 0 THEN <<>>
    ELSE KeysUpTo(user_meta, n - 1)
         \o (IF Uuid(n) \in DOMAIN user_meta THEN <<Uuid(n)>> ELSE <<>>)

Keys(user_meta) == KeysUpTo(user_meta, Len(UuidNames))

\* where list.sort(key=updatedAt, reverse=True), which is stable, puts s
InsertByUpdatedAt(sorted, s) ==
    LET k == Cardinality({i \in 1..Len(sorted) :
                            ~StrLess(sorted[i].updatedAt, s.updatedAt)})
    IN SubSeq(sorted, 1, k) \o <<s>> \o SubSeq(sorted, k + 1, Len(sorted))

RECURSIVE SortByUpdatedAt(_)
SortByUpdatedAt(summaries) ==
    IF summaries = <<>> THEN <<>>
    ELSE InsertByUpdatedAt(
           SortByUpdatedAt(SubSeq(summaries, 1, Len(summaries) - 1)),
           summaries[Len(summaries)])

\* list_conversations without its sort
SummariesUnsorted(user_meta, user_messages) ==
    LET keys == Keys(user_meta) IN
    [i \in 1..Len(keys) |-> ConversationSummary(user_meta, user_messages, keys[i])]

\* the body of list_conversations' response
Summaries(user_meta, user_messages) ==
    LET keys == Keys(user_meta) IN
    SortByUpdatedAt([i \in 1..Len(keys) |->
                       ConversationSummary(user_meta, user_messages, keys[i])])

\* -------------------------------------------- GET /api/chat/conversations
\* list_conversations
ListConversations(p) ==
    /\ Begin(p)
    /\ Started(p)
    /\ \E user \in HeaderUsers :
         IF user = NoUser
         THEN /\ Finish(p, Error(400))
              /\ req' = [req EXCEPT ![p] = [IdleReq EXCEPT !.op = "list"]]
              /\ UNCHANGED store
         ELSE LET metadata == SetDefault(conversation_metadata, user)
                  \* _conversation_summary runs once per key, and not at all
                  \* for a user without conversations
                  messages == IF DOMAIN metadata[user] = {}
                              THEN conversation_messages
                              ELSE SetDefault(conversation_messages, user)
              IN
              /\ conversation_metadata' = metadata
              /\ conversation_messages' = messages
              /\ req' = [req EXCEPT ![p] = [IdleReq EXCEPT !.op = "list", !.user = user]]
              /\ Finish(p, [NoResp EXCEPT
                              !.status = 200,
                              !.summaries =
                                 Summaries(metadata[user],
                                           Get(messages, user, EmptyDict))])
    /\ UNCHANGED <<clock, uuids, msgids>>
    /\ UNCHANGED aside

\* ------------------------------------- GET /api/chat/conversations/{id}
\* get_conversation
GetConversation(p) ==
    /\ Begin(p)
    /\ Started(p)
    /\ \E user \in HeaderUsers, cid \in PathIds :
         IF user = NoUser
         THEN /\ Finish(p, Error(400))
              /\ req' = [req EXCEPT ![p] = [IdleReq EXCEPT !.op = "get"]]
              /\ UNCHANGED store
         ELSE LET messages == SetDefault(conversation_messages, user) IN
              /\ conversation_messages' = messages
              /\ UNCHANGED conversation_metadata
              /\ req' = [req EXCEPT ![p] =
                           [IdleReq EXCEPT !.op = "get", !.user = user, !.cid = cid]]
              /\ IF GetNotFound(messages[user], cid)
                 THEN Finish(p, Error(404))
                 ELSE Finish(p, [NoResp EXCEPT !.status = 200,
                                               !.messages = messages[user][cid],
                                               !.conversationId = cid])
    /\ UNCHANGED <<clock, uuids, msgids>>
    /\ UNCHANGED aside

\* ---------------------------------- DELETE /api/chat/conversations/{id}
\* delete_conversation up to its test
DeleteBegin(p) ==
    /\ Begin(p)
    /\ Started(p)
    /\ \E user \in HeaderUsers, cid \in PathIds :
         IF user = NoUser
         THEN /\ Finish(p, Error(400))
              /\ req' = [req EXCEPT ![p] = [IdleReq EXCEPT !.op = "delete"]]
              /\ UNCHANGED store
         ELSE LET metadata == SetDefault(conversation_metadata, user) IN
              /\ conversation_metadata' = metadata
              /\ UNCHANGED conversation_messages
              /\ req' = [req EXCEPT ![p] =
                           [IdleReq EXCEPT !.op = "delete", !.user = user,
                                           !.cid = cid, !.conv = cid]]
              /\ IF DeleteNotFound(metadata[user], cid)
                 THEN Finish(p, Error(404))
                 ELSE Goto(p, "del_msgs")
    /\ UNCHANGED <<clock, uuids, msgids>>
    /\ UNCHANGED aside

\* delete_conversation: _get_user_message_store(user_id).pop(conversation_id, None)
DeleteMsgs(p) ==
    /\ pc[p] = "del_msgs"
    /\ conversation_messages' =
         [SetDefault(conversation_messages, req[p].user) EXCEPT
            ![req[p].user] = Pop(@, req[p].conv)]
    /\ Goto(p, "del_meta")
    /\ UNCHANGED <<conversation_metadata, clock, uuids, msgids, req, pre, nreq>>
    /\ UNCHANGED aside

\* delete_conversation: user_meta.pop(conversation_id, None), and its return
DeleteMeta(p) ==
    /\ pc[p] = "del_meta"
    /\ conversation_metadata' =
         [conversation_metadata EXCEPT ![req[p].user] = Pop(@, req[p].conv)]
    /\ Finish(p, [NoResp EXCEPT !.status = 200])
    /\ UNCHANGED <<conversation_messages, clock, uuids, msgids, req, pre, nreq>>
    /\ UNCHANGED aside

\* ------------------------- DELETE /api/chat/conversations/{id}/messages
\* clear_conversation_messages up to its test
ClearBegin(p) ==
    /\ Begin(p)
    /\ Started(p)
    /\ \E user \in HeaderUsers, cid \in PathIds :
         IF user = NoUser
         THEN /\ Finish(p, Error(400))
              /\ req' = [req EXCEPT ![p] = [IdleReq EXCEPT !.op = "clear"]]
              /\ UNCHANGED store
         ELSE LET metadata == SetDefault(conversation_metadata, user) IN
              /\ conversation_metadata' = metadata
              /\ conversation_messages' = SetDefault(conversation_messages, user)
              /\ req' = [req EXCEPT ![p] =
                           [IdleReq EXCEPT !.op = "clear", !.user = user,
                                           !.cid = cid, !.conv = cid]]
              /\ IF ClearNotFound(metadata[user], cid)
                 THEN Finish(p, Error(404))
                 ELSE Goto(p, "clr_msgs")
    /\ UNCHANGED <<clock, uuids, msgids>>
    /\ UNCHANGED aside

\* clear_conversation_messages: user_messages[conversation_id] = []
ClearMsgs(p) ==
    /\ pc[p] = "clr_msgs"
    /\ conversation_messages' =
         [conversation_messages EXCEPT ![req[p].user] = Put(@, req[p].conv, <<>>)]
    /\ Goto(p, "clr_meta")
    /\ UNCHANGED <<conversation_metadata, clock, uuids, msgids, req, pre, nreq>>
    /\ UNCHANGED aside

\* clear_conversation_messages: the write of updated_at, and its return
ClearUpdate(p) ==
    /\ pc[p] = "clr_meta"
    /\ LET user == req[p].user
           conv == req[p].conv
       IN
       IF conv \notin DOMAIN conversation_metadata[user]
       THEN \* KeyError
            /\ Finish(p, Error(500))
            /\ UNCHANGED <<conversation_metadata, clock>>
       ELSE \E now \in UtcNow :
            /\ clock' = now
            /\ conversation_metadata' =
                 [conversation_metadata EXCEPT ![user][conv] = ClearMeta(@, now)]
            /\ Finish(p, [NoResp EXCEPT !.status = 200])
    /\ UNCHANGED <<conversation_messages, uuids, msgids, req, pre, nreq>>
    /\ UNCHANGED aside

\* ----------------------------------------------------------- environment
\* the response is sent and the worker thread is free again
Respond(p) ==
    /\ pc[p] = "done"
    /\ pc' = [pc EXCEPT ![p] = "idle"]
    /\ req' = [req EXCEPT ![p] = IdleReq]
    /\ resp' = [resp EXCEPT ![p] = NoResp]
    /\ pre' = [pre EXCEPT ![p] = NoSnapshot]
    /\ UNCHANGED <<store, clock, uuids, msgids, nreq>>
    /\ UNCHANGED aside

Step(p) ==
    \/ SendBegin(p)
    \/ CreateMeta(p)
    \/ CreateMsgs(p)
    \/ StoreCheck(p)
    \/ StoreAppend(p)
    \/ StoreUpdate(p)
    \/ Assemble(p)
    \/ Generate(p)
    \/ ListConversations(p)
    \/ GetConversation(p)
    \/ DeleteBegin(p)
    \/ DeleteMsgs(p)
    \/ DeleteMeta(p)
    \/ ClearBegin(p)
    \/ ClearMsgs(p)
    \/ ClearUpdate(p)
    \/ Respond(p)

\* worker threads interleave
Next == \E p \in Procs : Step(p)

Spec == Init /\ [][Next]_vars

\* one worker thread: one request at a time
SeqNext == Step(1)

SeqSpec == Init /\ [][SeqNext]_vars


\* ------------------------------------------- a conversation with a past
\* the i-th message of a conversation built by alternating sends and replies
HistContent(i) == <<"m">> \o IsoFormat(i)

Hist(n) ==
    [i \in 1..n |->
       ChatMessage(i, HistContent(i), IF i % 2 = 1 THEN "user" ELSE "assistant",
                   IsoFormat(0), Uuid(1))]

\* the store after n messages went to one conversation of alice, with one
\* request left to start
HistInit ==
    /\ \E n \in 0..MaxHist :
         /\ conversation_messages = [u \in {"alice"} |-> [c \in {Uuid(1)} |-> Hist(n)]]
         /\ msgids = n
    /\ conversation_metadata =
         [u \in {"alice"} |-> [c \in {Uuid(1)} |-> NewMeta(HistContent(1), 0)]]
    /\ clock = 0
    /\ uuids = 1
    /\ pc = [p \in Procs |-> "idle"]
    /\ req = [p \in Procs |-> IdleReq]
    /\ resp = [p \in Procs |-> NoResp]
    /\ pre = [p \in Procs |-> NoSnapshot]
    /\ nreq = MaxReqs - 1
    /\ call = NoCall
    /\ users_table = EmptyDict
    /\ registered = EmptyDict

HistSpec == HistInit /\ [][SeqNext]_vars


\* ------------------------------------------ a user with several conversations
\* the list of the k-th conversation: empty, or one exchange
ListMsgs(k, n) ==
    [i \in 1..n |->
       ChatMessage(2 * (k - 1) + i, HistContent(i),
                   IF i % 2 = 1 THEN "user" ELSE "assistant", IsoFormat(0), Uuid(k))]

\* the store after alice created MaxConvs conversations, deleted some of
\* them, and sent to or cleared the others at various times, with one request
\* left to start
ListInit ==
    /\ \E kept \in SUBSET (1..MaxConvs) :
       \E updated \in [kept -> 0..MaxClock], len \in [kept -> {0, 2}] :
         /\ conversation_metadata =
              [u \in {"alice"} |->
                 [c \in {Uuid(k) : k \in kept} |->
                    LET k == CHOOSE j \in kept : Uuid(j) = c IN
                    [NewMeta(HistContent(1), 0) EXCEPT !.updated_at = updated[k]]]]
         /\ conversation_messages =
              [u \in {"alice"} |->
                 [c \in {Uuid(k) : k \in kept} |->
                    LET k == CHOOSE j \in kept : Uuid(j) = c IN ListMsgs(k, len[k])]]
    /\ clock = MaxClock
    /\ uuids = MaxConvs
    /\ msgids = 2 * MaxConvs
    /\ pc = [p \in Procs |-> "idle"]
    /\ req = [p \in Procs |-> IdleReq]
    /\ resp = [p \in Procs |-> NoResp]
    /\ pre = [p \in Procs |-> NoSnapshot]
    /\ nreq = MaxReqs - 1
    /\ call = NoCall
    /\ users_table = EmptyDict
    /\ registered = EmptyDict

ListSpec == ListInit /\ [][SeqNext]_vars

\* ------------------------------------------- a conversation being created
\* the store while a first send of alice stands between the two writes of
\* _create_conversation and a clearMessages on the new conversation has come
\* and gone, with one request left to start
RaceInit ==
    /\ conversation_metadata =
         [u \in {"alice"} |-> [c \in {Uuid(1)} |-> NewMeta(<<"h", "i">>, 0)]]
    /\ conversation_messages = [u \in {"alice"} |-> [c \in {Uuid(1)} |-> <<>>]]
    /\ clock = 0
    /\ uuids = 1
    /\ msgids = 0
    /\ pc = [p \in Procs |-> IF p = 1 THEN "create_msgs" ELSE "idle"]
    /\ req = [p \in Procs |->
                IF p = 1
                THEN [IdleReq EXCEPT !.op = "send", !.user = "alice",
                                     !.text = <<"h", "i">>, !.conv = Uuid(1),
                                     !.created = TRUE]
                ELSE IdleReq]
    /\ resp = [p \in Procs |-> NoResp]
    /\ pre = [p \in Procs |-> NoSnapshot]
    /\ nreq = MaxReqs - 1
    /\ call = NoCall
    /\ users_table = EmptyDict
    /\ registered = EmptyDict

RaceSpec == RaceInit /\ [][Next]_vars

\* ------------------------------------------------ _derive_title on its own
\* i times the character c
Repeat(c, i) == [k \in 1..i |-> c]

\* bodies of i characters, without and with a blank inside
Bodies(i) ==
    {Repeat("x", i)}
    \cup (IF i >= 3 THEN {<<"x", " ">> \o Repeat("x", i - 2)} ELSE {})

\* runs of up to MaxPad characters of whitespace
Pads == {Repeat(w, i) : w \in Whitespace, i \in 0..MaxPad}

\* arguments of _derive_title: up to TitleMax + MaxPad characters between
\* leading and trailing whitespace
TitleInputs ==
    {lead \o body \o trail :
       lead \in Pads, trail \in Pads,
       body \in UNION {Bodies(i) : i \in 0..(TitleMax + MaxPad)}}

TitleInit ==
    /\ conversation_messages = EmptyDict
    /\ conversation_metadata = EmptyDict
    /\ clock = 0
    /\ uuids = 0
    /\ msgids = 0
    /\ pc = [p \in Procs |-> "idle"]
    /\ req = [p \in Procs |-> IdleReq]
    /\ resp = [p \in Procs |-> NoResp]
    /\ pre = [p \in Procs |-> NoSnapshot]
    /\ nreq = 0
    /\ \E text \in TitleInputs :
         call = [NoCall EXCEPT !.fn = "_derive_title", !.arg = text]
    /\ users_table = EmptyDict
    /\ registered = EmptyDict

\* _derive_title(text) returns
DeriveTitleCall ==
    /\ call.fn = "_derive_title" /\ ~call.returned
    /\ call' = [call EXCEPT !.result = DeriveTitle(call.arg), !.returned = TRUE]
    /\ UNCHANGED <<chat, users_table, registered>>

TitleSpec == TitleInit /\ [][DeriveTitleCall]_vars

\* ------------------------------------------------ generate_text on its own
\* prompts: none, a blank, a word, and the prompts _build_prompt assembles
GenPrompts ==
    {<<>>, <<" ">>, <<"h", "i">>}
    \cup {BuildPrompt(Hist(n), db) : n \in 0..MaxHist, db \in DbOutcomes}

GenInit ==
    /\ conversation_messages = EmptyDict
    /\ conversation_metadata = EmptyDict
    /\ clock = 0
    /\ uuids = 0
    /\ msgids = 0
    /\ pc = [p \in Procs |-> "idle"]
    /\ req = [p \in Procs |-> IdleReq]
    /\ resp = [p \in Procs |-> NoResp]
    /\ pre = [p \in Procs |-> NoSnapshot]
    /\ nreq = 0
    /\ \E prompt \in GenPrompts :
         call = [NoCall EXCEPT !.fn = "generate_text", !.arg = prompt]
    /\ users_table = EmptyDict
    /\ registered = EmptyDict

\* generate_text(prompt, wrap_prompt=False, strip_after="Answer:") returns or
\* raises; env is what the backend did with the request, if one was sent
GenerateTextCall ==
    /\ call.fn = "generate_text" /\ ~call.returned
    /\ \E backend \in BackendOutcomes :
         call' = [call EXCEPT !.env = backend,
                              !.result = GenerateText(call.arg, backend),
                              !.returned = TRUE]
    /\ UNCHANGED <<chat, users_table, registered>>

GenSpec == GenInit /\ [][GenerateTextCall]_vars

\* -------------------------------------------------------- auth endpoints
Emails == {"a@x", "b@x"}

Passwords == {<<>>, <<"p">>, <<"p", "q">>}

\* hashlib.sha256(password.encode()).hexdigest(): the digest of the password,
\* different for different passwords
HashPassword(password) == [sha256 |-> password]

\* what the credential store does with a call's statements: it serves them
\* all, raises before the INSERT is committed, or raises after the commit
StoreOutcomes == {"served", "raised", "raised_late"}

\* register_user writing the row without looking for the email
RegisterUserOverwrite(table, email, password, db) ==
    IF db = "raised"
    THEN [table |-> table, result |-> [error |-> "Exception"]]
    ELSE [table |-> Put(table, email, HashPassword(password)),
          result |-> IF db = "raised_late"
                     THEN [error |-> "Exception"]
                     ELSE [email |-> email]]

\* register_user: the users table after the call, and what it returns
RegisterUser(table, email, password, db) ==
    IF db = "raised"
    THEN [table |-> table, result |-> [error |-> "Exception"]]
    ELSE IF email \in DOMAIN table
    THEN [table |-> table, result |-> [error |-> "User already exists"]]
    ELSE [table |-> Put(table, email, HashPassword(password)),
          result |-> IF db = "raised_late"
                     THEN [error |-> "Exception"]
                     ELSE [email |-> email]]

\* the value of authenticate_user for None
NoCredential == [none |-> TRUE]

\* authenticate_user
AuthenticateUser(table, email, password, db) ==
    IF db # "served" THEN NoCredential
    ELSE IF email \notin DOMAIN table THEN NoCredential
    ELSE IF table[email] # HashPassword(password) THEN NoCredential
    ELSE [email |-> email]

AuthInit ==
    /\ conversation_messages = EmptyDict
    /\ conversation_metadata = EmptyDict
    /\ clock = 0
    /\ uuids = 0
    /\ msgids = 0
    /\ pc = [p \in Procs |-> "idle"]
    /\ req = [p \in Procs |-> IdleReq]
    /\ resp = [p \in Procs |-> NoResp]
    /\ pre = [p \in Procs |-> NoSnapshot]
    /\ nreq = 0
    /\ call = NoCall
    /\ users_table = EmptyDict
    /\ registered = EmptyDict

\* POST /api/auth/register, from request to response
Register ==
    /\ \E email \in Emails, password \in Passwords, db \in StoreOutcomes :
         LET out == RegisterUser(users_table, email, password, db)
             failed == "error" \in DOMAIN out.result
         IN
         /\ users_table' = out.table
         /\ registered' = IF failed \/ email \in DOMAIN registered
                          THEN registered
                          ELSE Put(registered, email, password)
         /\ call' = [fn |-> "register",
                     arg |-> [email |-> email, password |-> password],
                     env |-> db,
                     result |-> [status |-> IF failed THEN 400 ELSE 200,
                                 body |-> out.result],
                     returned |-> TRUE]
    /\ UNCHANGED chat

\* POST /api/auth/login, from request to response
Login ==
    /\ \E email \in Emails, password \in Passwords, db \in StoreOutcomes :
         LET user == AuthenticateUser(users_table, email, password, db) IN
         call' = [fn |-> "login",
                  arg |-> [email |-> email, password |-> password],
                  env |-> db,
                  result |-> [status |-> IF user = NoCredential THEN 401 ELSE 200,
                              body |-> user],
                  returned |-> TRUE]
    /\ UNCHANGED <<chat, users_table, registered>>

\* calls come one after another
AuthNext == Register \/ Login

AuthSpec == AuthInit /\ [][AuthNext]_vars

\* =================================================================== claims

\* the latest question a prompt carries: what stands between its
\* "Latest question: " and its closing "\n" "Answer:"
PromptLatest(prompt) ==
    LET i == CHOOSE k \in 1..Len(prompt) : prompt[k] = "Latest question: " IN
    SubSeq(prompt, i + 1, Len(prompt) - 2)

\* the history block a prompt carries: what stands between its
\* "Recent conversation:\n" and the next "\n\n"
PromptHistoryBlock(prompt) ==
    LET i == CHOOSE k \in 1..Len(prompt) : prompt[k] = "Recent conversation:\n"
        j == CHOOSE k \in (i + 1)..Len(prompt) :
               /\ prompt[k] = "\n\n"
               /\ \A l \in (i + 1)..(k - 1) : prompt[l] # "\n\n"
    IN SubSeq(prompt, i + 1, j - 1)

\* C1: a send whose generation call fails, with no other request interleaved,
\* answers 500 and leaves the conversation with its former messages plus
\* exactly the request's user message; no assistant message is appended and
\* the conversation, also one the request created, is in the store.
C1_FailedGeneration ==
    \A p \in Procs :
      (pc[p] = "done" /\ req[p].op = "send" /\ req[p].failed /\ pre[p].alone) =>
        LET u == req[p].user
            c == req[p].conv
            before == IF req[p].created THEN <<>>
                      ELSE Get(Get(pre[p].msgs, u, EmptyDict), c, <<>>)
        IN
        /\ resp[p].status = 500
        /\ u \in DOMAIN conversation_metadata /\ u \in DOMAIN conversation_messages
        /\ c \in DOMAIN conversation_metadata[u]
        /\ c \in DOMAIN conversation_messages[u]
        /\ LET now == conversation_messages[u][c] IN
           /\ Len(now) = Len(before) + 1
           /\ SubSeq(now, 1, Len(before)) = before
           /\ now[Len(now)].role = "user"
           /\ now[Len(now)].content = req[p].text
           /\ now[Len(now)].conversationId = c

\* C1 witness: a failed send to a conversation that already held messages
C1_Witness ==
    \E p \in Procs :
      /\ pc[p] = "done" /\ req[p].op = "send" /\ req[p].failed /\ pre[p].alone
      /\ ~req[p].created
      /\ resp[p].status = 500
      /\ Len(conversation_messages[req[p].user][req[p].conv]) >= 2

\* what C2 says of a request that has assembled its prompt
C2_UserMessageJustStored(p) ==
    LET h == req[p].history IN
    /\ h # <<>>
    /\ h[Len(h)] = req[p].message
    /\ h[Len(h)].role = "user"
    /\ \E i \in 1..Len(h) : i > Len(h) - HistWindow /\ h[i].role = "user"
    /\ PromptLatest(req[p].prompt) = req[p].text

\* C2 as claimed: under every interleaving, the list read at assembly ends with
\* the request's own user message, the window holds a user message, and the
\* prompt's latest question is the request's trimmed text.
C2_Original ==
    \A p \in Procs : pc[p] = "generate" => C2_UserMessageJustStored(p)

\* C2 as amended: the same, for a send during which no other request has been
\* in progress.
C2_Amended ==
    \A p \in Procs :
      (pc[p] = "generate" /\ pre[p].alone) => C2_UserMessageJustStored(p)

\* C2 witness: a send, alone, has assembled its prompt from a conversation
\* that held an earlier user message and its reply
C2_Witness ==
    \E p \in Procs :
      /\ pc[p] = "generate" /\ pre[p].alone
      /\ Len(req[p].history) > 2
      /\ req[p].history[1].role = "user"
      /\ req[p].history[1].content # req[p].text

\* one rendered line
C3_Line(msg) ==
    <<IF msg.role = "user" THEN "User" ELSE "Assistant", ": ">> \o msg.content

\* messages lo..hi of h, one line each, in order, "\n" between them
RECURSIVE C3_Render(_, _, _)
C3_Render(h, lo, hi) ==
    IF lo > hi THEN <<>>
    ELSE C3_Render(h, lo, hi - 1) \o (IF lo < hi THEN <<"\n">> ELSE <<>>) \o C3_Line(h[hi])

\* C3: for a conversation of n messages the prompt's history block is the last
\* min(n, 10) messages, one line each ("User: " or "Assistant: " and the
\* content), in their order, and nothing older.
C3_HistoryWindow ==
    \A p \in Procs :
      pc[p] = "generate" =>
        LET h == req[p].history
            n == Len(h)
            k == IF n < HistWindow THEN n ELSE HistWindow
        IN PromptHistoryBlock(req[p].prompt) = C3_Render(h, n - k + 1, n)

\* C3 witness: a prompt assembled from a conversation of 12 messages
C3_Witness ==
    \E p \in Procs :
      /\ pc[p] = "generate"
      /\ Len(req[p].history) = HistWindow + 2
      /\ PromptHistoryBlock(req[p].prompt)
           = C3_Render(req[p].history, 3, HistWindow + 2)


\* thread p's _store_message writes the metadata record in this step
StoreStep(p) ==
    /\ pc[p] = "store_meta"
    /\ pc'[p] # "store_meta"
    /\ req[p].conv \in DOMAIN conversation_metadata[req[p].user]

UpdatedAt(metadata, p) == metadata[req[p].user][req[p].conv].updated_at

\* C4 as claimed: every successful storeMessage call leaves updatedAt strictly
\* greater than it found it.
C4_Original ==
    [][\A p \in Procs :
         StoreStep(p) =>
           UpdatedAt(conversation_metadata', p) > UpdatedAt(conversation_metadata, p)]_vars

\* C4 as amended: every successful storeMessage call sets updatedAt to the
\* clock reading it takes; the value is never smaller than before, and it is
\* strictly greater exactly when that reading is later than the former value.
C4_Amended ==
    [][\A p \in Procs :
         StoreStep(p) =>
           /\ UpdatedAt(conversation_metadata', p) = clock'
           /\ UpdatedAt(conversation_metadata', p) >= UpdatedAt(conversation_metadata, p)
           /\ (UpdatedAt(conversation_metadata', p) > UpdatedAt(conversation_metadata, p))
                <=> (clock' > UpdatedAt(conversation_metadata, p))]_vars

\* C4 witness: the user's message was stored in a conversation the request
\* found, and updatedAt moved past its former value
C4_Witness ==
    \E p \in Procs :
      /\ pc[p] = "build" /\ ~req[p].created /\ pre[p].alone
      /\ UpdatedAt(conversation_metadata, p) > UpdatedAt(pre[p].meta, p)

\* C5, in every state: updatedAt >= createdAt, with equality right after
\* creation
C5_State ==
    /\ \A u \in DOMAIN conversation_metadata :
         \A c \in DOMAIN conversation_metadata[u] :
           conversation_metadata[u][c].updated_at >= conversation_metadata[u][c].created_at
    /\ \A p \in Procs :
         pc[p] = "create_msgs" =>
           LET meta == conversation_metadata[req[p].user][req[p].conv] IN
           meta.created_at = meta.updated_at

\* C5, in every step: createdAt stays and updatedAt does not decrease
C5_Step ==
    \A u \in DOMAIN conversation_metadata :
      \A c \in DOMAIN conversation_metadata[u] :
        c \in DOMAIN conversation_metadata'[u] =>
          /\ conversation_metadata'[u][c].created_at = conversation_metadata[u][c].created_at
          /\ conversation_metadata'[u][c].updated_at >= conversation_metadata[u][c].updated_at

\* C5: createdAt == updatedAt right after creation, createdAt never changes,
\* and updatedAt never decreases over storeMessage and clearMessages, so that
\* updatedAt >= createdAt throughout.
C5_Timestamps == []C5_State /\ [][C5_Step]_vars

\* C5 witness: a conversation was cleared after its updatedAt had moved on
C5_Witness ==
    \E p \in Procs :
      /\ pc[p] = "done" /\ req[p].op = "clear" /\ resp[p].status = 200
      /\ LET meta == conversation_metadata[req[p].user][req[p].conv]
             was == pre[p].meta[req[p].user][req[p].conv]
         IN /\ was.updated_at > was.created_at
            /\ meta.updated_at >= was.updated_at

\* the title listConversations reports for a conversation
C6_Reported(metadata, messages, u, c) ==
    ConversationSummary(metadata[u], messages[u], c).title

\* C6: once a conversation holds a user message, no later storeMessage call
\* changes its stored title or the title listConversations reports.
C6_TitleFixed ==
    [][\A p \in Procs :
         LET u == req[p].user
             c == req[p].conv
         IN
         (/\ StoreStep(p)
          /\ c \in DOMAIN conversation_messages[u]
          /\ \E i \in 1..Len(conversation_messages[u][c]) :
               /\ conversation_messages[u][c][i].role = "user"
               /\ conversation_messages[u][c][i] # req[p].message)
         => /\ conversation_metadata'[u][c].title = conversation_metadata[u][c].title
            /\ C6_Reported(conversation_metadata', conversation_messages', u, c)
                 = C6_Reported(conversation_metadata, conversation_messages, u, c)]_vars

\* C7: listConversations and getConversation leave both process-wide maps as
\* they found them, for every user id and conversation id.
C7_ReadsDoNotMutate ==
    \A p \in Procs :
      (pc[p] = "done" /\ req[p].op \in {"list", "get"} /\ pre[p].alone) =>
        /\ conversation_messages = pre[p].msgs
        /\ conversation_metadata = pre[p].meta


\* a user's conversations in one of the two maps; none for an unknown user
Convs(map, u) == Get(map, u, EmptyDict)

\* every conversation of the snapshot is in the store as it was
KeptSince(snapshot) ==
    \A u \in Users :
      /\ \A c \in DOMAIN Convs(snapshot.meta, u) :
           /\ c \in DOMAIN Convs(conversation_metadata, u)
           /\ conversation_metadata[u][c] = snapshot.meta[u][c]
      /\ \A c \in DOMAIN Convs(snapshot.msgs, u) :
           /\ c \in DOMAIN Convs(conversation_messages, u)
           /\ conversation_messages[u][c] = snapshot.msgs[u][c]

\* every conversation id any user had in the snapshot
KnownIds(snapshot) ==
    UNION {DOMAIN Convs(snapshot.meta, u) \cup DOMAIN Convs(snapshot.msgs, u) : u \in Users}

\* the title of a trimmed, non-blank message text
C8_Title(text) ==
    IF Len(text) <= TitleMax THEN text
    ELSE [i \in 1..(TitleMax + 3) |-> IF i <= TitleMax THEN text[i] ELSE "."]

\* the request supplied an id that existed for its user when it began
C8_Supplied(p) ==
    /\ req[p].cid # NoneId /\ req[p].cid # EmptyId
    /\ req[p].cid \in DOMAIN Convs(pre[p].meta, req[p].user)

\* C8: ensureConversation returns a supplied id that exists for the user and
\* leaves the store unchanged; in every other case (no id, empty id, unknown
\* id, an id of another user) it creates exactly one conversation for the user
\* under a fresh id different from the supplied one, with an empty message
\* list, the title derived from the message text and createdAt == updatedAt,
\* and leaves every existing conversation unchanged.
C8_Ensure ==
    \A p \in Procs :
      (req[p].op = "send" /\ pre[p].alone) =>
        LET u == req[p].user
            c == req[p].conv
        IN
        \* it creates only when the supplied id does not exist for the user
        /\ pc[p] = "create_meta" => ~C8_Supplied(p) /\ KeptSince(pre[p])
        \* the metadata record is written
        /\ pc[p] = "create_msgs" =>
             /\ c # req[p].cid /\ c \notin KnownIds(pre[p])
             /\ DOMAIN conversation_metadata[u] = DOMAIN Convs(pre[p].meta, u) \cup {c}
             /\ \A v \in Users \ {u} :
                  DOMAIN Convs(conversation_metadata, v) = DOMAIN Convs(pre[p].meta, v)
             /\ conversation_metadata[u][c].title = C8_Title(req[p].text)
             /\ conversation_metadata[u][c].created_at = conversation_metadata[u][c].updated_at
             /\ KeptSince(pre[p])
        \* _ensure_conversation has returned
        /\ (pc[p] = "store_check" /\ req[p].role = "user") =>
             IF req[p].created
             THEN /\ c \notin KnownIds(pre[p])
                  /\ DOMAIN conversation_metadata[u] = DOMAIN Convs(pre[p].meta, u) \cup {c}
                  /\ DOMAIN conversation_messages[u] = DOMAIN Convs(pre[p].msgs, u) \cup {c}
                  /\ \A v \in Users \ {u} :
                       /\ DOMAIN Convs(conversation_metadata, v) = DOMAIN Convs(pre[p].meta, v)
                       /\ DOMAIN Convs(conversation_messages, v) = DOMAIN Convs(pre[p].msgs, v)
                  /\ conversation_messages[u][c] = <<>>
                  /\ conversation_metadata[u][c].title = C8_Title(req[p].text)
                  /\ conversation_metadata[u][c].created_at
                       = conversation_metadata[u][c].updated_at
                  /\ KeptSince(pre[p])
             ELSE /\ C8_Supplied(p)
                  /\ c = req[p].cid
                  /\ conversation_metadata = pre[p].meta
                  /\ conversation_messages = pre[p].msgs

\* C8 witness: a conversation was created for a request that supplied an id
\* existing only under the other user
C8_Witness ==
    \E p \in Procs :
      /\ req[p].op = "send" /\ pre[p].alone /\ pc[p] = "create_msgs"
      /\ \E v \in Users \ {req[p].user} : req[p].cid \in DOMAIN Convs(pre[p].meta, v)
      /\ req[p].conv \in DOMAIN conversation_metadata[req[p].user]

\* the id is a conversation of the user in neither map
C9_Absent(u, c) ==
    /\ c \notin DOMAIN Convs(conversation_metadata, u)
    /\ c \notin DOMAIN Convs(conversation_messages, u)

\* the step adds, removes and changes no conversation
C9_SameConvs ==
    \A u \in Users :
      /\ Convs(conversation_metadata', u) = Convs(conversation_metadata, u)
      /\ Convs(conversation_messages', u) = Convs(conversation_messages, u)

C9_NotFound(p) ==
    /\ pc'[p] = "done"
    /\ resp'[p].status = 404
    /\ C9_SameConvs

\* C9: getConversation, deleteConversation, clearMessages and storeMessage,
\* called with an id that is no conversation of the user, answer 404, create
\* no conversation and change none.
C9_MissingIs404 ==
    [][\A p \in Procs :
         /\ (/\ pc[p] = "idle" /\ pc'[p] # "idle"
             /\ req'[p].op \in {"get", "delete", "clear"}
             /\ req'[p].user \in Users
             /\ C9_Absent(req'[p].user, req'[p].cid))
            => C9_NotFound(p)
         /\ (/\ pc[p] = "store_check" /\ pc'[p] # "store_check"
             /\ C9_Absent(req[p].user, req[p].conv))
            => C9_NotFound(p)]_vars

\* C9 witness: _store_message did not find the conversation of its send
C9_Witness ==
    \E p \in Procs :
      /\ pc[p] = "done" /\ req[p].op = "send" /\ resp[p].status = 404
      /\ C9_Absent(req[p].user, req[p].conv)

\* the summaries listConversations gives user u for the two maps
C10_List(metadata, messages, u) ==
    Summaries(Convs(metadata, u), Convs(messages, u))

\* C10: after a successful clearMessages the conversation has an empty message
\* list, is listed with messageCount 0, keeps its id, title and createdAt, and
\* no other conversation is changed.
C10_Clear ==
    \A p \in Procs :
      (pc[p] = "done" /\ req[p].op = "clear" /\ resp[p].status = 200 /\ pre[p].alone) =>
        LET u == req[p].user
            c == req[p].conv
            now == C10_List(conversation_metadata, conversation_messages, u)
            was == C10_List(pre[p].meta, pre[p].msgs, u)
        IN
        /\ c \in DOMAIN conversation_messages[u]
        /\ conversation_messages[u][c] = <<>>
        /\ Cardinality({i \in 1..Len(now) : now[i].id = c}) = 1
        /\ \A i \in 1..Len(now) :
             now[i].id = c =>
               /\ now[i].messageCount = 0
               /\ \E j \in 1..Len(was) :
                    /\ was[j].id = c
                    /\ was[j].title = now[i].title
                    /\ was[j].createdAt = now[i].createdAt
        /\ conversation_metadata[u][c].title = pre[p].meta[u][c].title
        /\ conversation_metadata[u][c].created_at = pre[p].meta[u][c].created_at
        /\ \A v \in Users :
             /\ DOMAIN Convs(conversation_metadata, v) = DOMAIN Convs(pre[p].meta, v)
             /\ DOMAIN Convs(conversation_messages, v) = DOMAIN Convs(pre[p].msgs, v)
             /\ \A d \in DOMAIN Convs(pre[p].meta, v) :
                  (v # u \/ d # c) =>
                    /\ conversation_metadata[v][d] = pre[p].meta[v][d]
                    /\ conversation_messages[v][d] = pre[p].msgs[v][d]

\* C10 witness: a conversation that held messages was cleared
C10_Witness ==
    \E p \in Procs :
      /\ pc[p] = "done" /\ req[p].op = "clear" /\ resp[p].status = 200 /\ pre[p].alone
      /\ pre[p].msgs[req[p].user][req[p].conv] # <<>>
      /\ conversation_messages[req[p].user][req[p].conv] = <<>>

\* a send for which a conversation was created, by a user who had no
\* conversation when it began, has answered 200
C11_FreshSend(p) ==
    /\ pc[p] = "done" /\ req[p].op = "send" /\ resp[p].status = 200
    /\ req[p].created /\ pre[p].alone
    /\ DOMAIN Convs(pre[p].meta, req[p].user) = {}
    /\ DOMAIN Convs(pre[p].msgs, req[p].user) = {}

\* C11: a successful send without a usable conversationId from a user who has
\* no conversations leaves that user with exactly one conversation, titled by
\* the message, whose list is [the user message, the assistant reply]; the
\* response carries that assistant message, and the message's and the
\* response's conversationId are the new conversation's id.
C11_FirstSend ==
    \A p \in Procs :
      C11_FreshSend(p) =>
        LET u == req[p].user
            c == req[p].conv
        IN
        /\ DOMAIN conversation_metadata[u] = {c}
        /\ DOMAIN conversation_messages[u] = {c}
        /\ c \notin KnownIds(pre[p])
        /\ conversation_metadata[u][c].title = C8_Title(req[p].text)
        /\ LET list == conversation_messages[u][c] IN
           /\ Len(list) = 2
           /\ list[1].role = "user" /\ list[1].content = req[p].text
           /\ list[1].conversationId = c
           /\ list[2].role = "assistant"
           /\ list[2] = resp[p].message
        /\ resp[p].message.role = "assistant"
        /\ resp[p].message.conversationId = c
        /\ resp[p].conversationId = c

\* C11 witness: the first send of a user, with the text "hi", was answered
C11_Witness ==
    \E p \in Procs :
      /\ C11_FreshSend(p)
      /\ req[p].text = <<"h", "i">>
      /\ conversation_metadata[req[p].user][req[p].conv].title = <<"h", "i">>
      /\ Len(conversation_messages[req[p].user][req[p].conv]) = 2

\* the content of the last user message among messages lo..hi of h; "" when
\* there is none
RECURSIVE C12_Latest(_, _, _)
C12_Latest(h, lo, hi) ==
    IF hi < lo THEN <<>>
    ELSE IF h[hi].role = "user" THEN h[hi].content
    ELSE C12_Latest(h, lo, hi - 1)

\* the prompt without FAQ context: the system instruction, a blank line, and
\* the conversation context of the last ten messages of h
C12_Plain(h) ==
    LET n == Len(h)
        lo == IF n > HistWindow THEN n - HistWindow + 1 ELSE 1
    IN
    <<SystemText, "\n\n", "Recent conversation:\n">>
    \o C3_Render(h, lo, n)
    \o <<"\n\n", "Answer the latest user question once. Do not add new questions.\n",
         "Latest question: ">>
    \o C12_Latest(h, lo, n)
    \o <<"\n", "Answer:">>

\* C12: when FAQ retrieval fails during a send, prompt assembly completes
\* without an error response, the prompt is the system instruction followed by
\* the unaugmented conversation context, and the generation client is then
\* called with it and sends its request.
C12_RetrievalFailure ==
    [][\A p \in Procs :
         /\ (pc[p] = "build" /\ pc'[p] # "build" /\ req'[p].db_failed) =>
              /\ pc'[p] = "generate"
              /\ resp'[p] = NoResp
              /\ req'[p].prompt = C12_Plain(req'[p].history)
              /\ req'[p].prompt # <<>>
         /\ (pc[p] = "generate" /\ pc'[p] # "generate" /\ req[p].db_failed) =>
              /\ req[p].prompt = C12_Plain(req[p].history)
              /\ req'[p].calls = req[p].calls + 1
              /\ (pc'[p] = "done" => (resp'[p].status = 500 /\ req'[p].failed))]_vars

\* C12 witness: retrieval failed and the prompt, assembled from a conversation
\* that held an earlier exchange, stands ready for the generation client
C12_Witness ==
    \E p \in Procs :
      /\ pc[p] = "generate" /\ req[p].db_failed
      /\ Len(req[p].history) = 3
      /\ req[p].prompt = C12_Plain(req[p].history)

\* the conversation context _build_prompt hands to augment_prompt_with_context
C13_Context(h) == SubSeq(C12_Plain(h), 3, Len(C12_Plain(h)))

\* what augment_prompt_with_context returned: the prompt after the system
\* instruction and its blank line
C13_Result(prompt) == SubSeq(prompt, 3, Len(prompt))

\* the line "- <question>: <answer>" of the record stands at atoms i.. of text
C13_FaqLineAt(text, i, faq) ==
    /\ i + Len(faq.question) + Len(faq.answer) + 2 <= Len(text)
    /\ text[i] = "- "
    /\ SubSeq(text, i + 1, i + Len(faq.question)) = faq.question
    /\ text[i + Len(faq.question) + 1] = ": "
    /\ SubSeq(text, i + Len(faq.question) + 2,
              i + Len(faq.question) + Len(faq.answer) + 1) = faq.answer
    /\ text[i + Len(faq.question) + Len(faq.answer) + 2] = "\n"

\* where the line of the j-th record starts when the lines start at atom 2
RECURSIVE C13_Start(_, _)
C13_Start(faqs, j) ==
    IF j = 1 THEN 2
    ELSE C13_Start(faqs, j - 1)
         + Len(faqs[j - 1].question) + Len(faqs[j - 1].answer) + 3

\* C13: with zero records the result of augment_prompt_with_context is the
\* conversation context itself; with k >= 1 records it is the header line, then
\* exactly k lines "- <question>: <answer>", one per record in retrieval
\* order, then a blank line and the unmodified conversation context.
C13_Augmentation ==
    \A p \in Procs :
      pc[p] = "generate" =>
        LET faqs == req[p].faqs
            k == Len(faqs)
            context == C13_Context(req[p].history)
            result == C13_Result(req[p].prompt)
        IN
        IF k = 0
        THEN result = context
        ELSE LET dashes == {i \in 1..Len(result) : result[i] = "- "}
                 after == C13_Start(faqs, k + 1)
             IN
             /\ result[1] = FaqHeader
             /\ Cardinality(dashes) = k
             /\ \A j \in 1..k : C13_FaqLineAt(result, C13_Start(faqs, j), faqs[j])
             /\ result[after] = "\n"
             /\ SubSeq(result, after + 1, Len(result)) = context

\* C13 witness: two records were retrieved for a conversation with a past
C13_Witness ==
    \E p \in Procs :
      /\ pc[p] = "generate"
      /\ Len(req[p].faqs) = 2
      /\ Len(req[p].history) > 2
      /\ C13_FaqLineAt(C13_Result(req[p].prompt), 2, Faq2)

\* the characters of s from its first to its last non-whitespace character
C14_Trimmed(s) ==
    LET solid == {i \in 1..Len(s) : s[i] \notin {" ", "\n", "\t"}} IN
    IF solid = {} THEN <<>>
    ELSE SubSeq(s, CHOOSE i \in solid : \A j \in solid : i <= j,
                   CHOOSE i \in solid : \A j \in solid : j <= i)

\* the first TitleMax characters of s and "..."
C14_Cut(s) == SubSeq(s, 1, TitleMax) \o <<".", ".", ".">>

\* C14 as claimed: for every input of at most 60 characters the title is the
\* trimmed input, and for every input of more than 60 characters it is the
\* input's first 60 characters followed by "...".
C14_Original ==
    call.returned =>
      IF Len(call.arg) <= TitleMax
      THEN call.result = C14_Trimmed(call.arg)
      ELSE call.result = C14_Cut(call.arg)

\* C14 as amended: with t the trimmed input, the title is "New Conversation"
\* when t is empty, t when t has 1 to 60 characters, and the first 60
\* characters of t followed by "..." when t has more than 60.
C14_Amended ==
    call.returned =>
      LET t == C14_Trimmed(call.arg) IN
      IF t = <<>> THEN call.result = NewConversation
      ELSE IF Len(t) <= TitleMax THEN call.result = t
      ELSE call.result = C14_Cut(t)

\* C14 witness: an input of more than 60 characters whose trimmed form has
\* more than 60 too was cut, whitespace around it dropped
C14_Witness ==
    /\ call.returned
    /\ Len(C14_Trimmed(call.arg)) > TitleMax
    /\ Len(call.arg) > Len(C14_Trimmed(call.arg))
    /\ Len(call.result) = TitleMax + 3

\* a is a prefix of b
C15_Prefix(a, b) == Len(a) <= Len(b) /\ SubSeq(b, 1, Len(a)) = a

\* the step is the write of a clearMessages or a deleteConversation on
\* conversation c of user u
C15_ClearOrDelete(u, c) ==
    \E p \in Procs :
      /\ pc[p] \in {"clr_msgs", "del_msgs"} /\ pc'[p] # pc[p]
      /\ req[p].user = u /\ req[p].conv = c

\* every stored message carries the id of the conversation whose list holds it
C15_Belongs ==
    \A u \in DOMAIN conversation_messages :
      \A c \in DOMAIN conversation_messages[u] :
        \A i \in 1..Len(conversation_messages[u][c]) :
          conversation_messages[u][c][i].conversationId = c

\* no step but a clearMessages or deleteConversation on the conversation
\* takes a list away or leaves it anything but an extension of what it was
C15_AppendOnly ==
    \A u \in DOMAIN conversation_messages :
      \A c \in DOMAIN conversation_messages[u] :
        ~C15_ClearOrDelete(u, c) =>
          /\ c \in DOMAIN Convs(conversation_messages', u)
          /\ C15_Prefix(conversation_messages[u][c], conversation_messages'[u][c])

\* C15: between two states with no clearMessages or deleteConversation on a
\* conversation in between, its earlier message list is a prefix of the later
\* one, and every stored message's conversationId is the id of the
\* conversation whose list holds it.
C15_Immutable == []C15_Belongs /\ [][C15_AppendOnly]_vars

\* a listConversations request of a user has been answered
C16_Listed(p) ==
    pc[p] = "done" /\ req[p].op = "list" /\ resp[p].status = 200

\* C16: listConversations returns one summary per conversation of the
\* requesting user, none missing and none twice, each with messageCount equal
\* to the length of the conversation's message list, and for any two adjacent
\* summaries the first one's updatedAt is at least the second's.
C16_List ==
    \A p \in Procs :
      C16_Listed(p) =>
        LET u == req[p].user
            out == resp[p].summaries
            meta == Convs(conversation_metadata, u)
            msgs == Convs(conversation_messages, u)
        IN
        /\ {out[i].id : i \in 1..Len(out)} = DOMAIN meta
        /\ Len(out) = Cardinality(DOMAIN meta)
        /\ \A i \in 1..Len(out) :
             out[i].messageCount = Len(Get(msgs, out[i].id, <<>>))
        /\ \A i \in 1..(Len(out) - 1) :
             /\ meta[out[i].id].updated_at >= meta[out[i + 1].id].updated_at
             /\ ~StrLess(out[i].updatedAt, out[i + 1].updatedAt)

\* C16 witness: three conversations were listed, the one updated last first
\* although it was created after another
C16_Witness ==
    \E p \in Procs :
      /\ C16_Listed(p)
      /\ Len(resp[p].summaries) = 3
      /\ resp[p].summaries[1].id = Uuid(2)
      /\ resp[p].summaries[1].updatedAt # resp[p].summaries[3].updatedAt
      /\ resp[p].summaries[1].messageCount = 2
      /\ resp[p].summaries[2].messageCount = 0

\* C17: a generate_text call sends no request when the prompt is empty, and
\* then fails with ValueError; it sends exactly one otherwise, and when that
\* request fails it raises the generation failure with no second request.
C17_OneRequest ==
    call.returned =>
      /\ call.result.calls <= 1
      /\ call.arg = <<>> => (call.result.calls = 0 /\ call.result.kind = "ValueError")
      /\ call.arg # <<>> => call.result.calls = 1
      /\ (call.arg # <<>> /\ ~call.env.ok) =>
           (call.result.kind = "Exception" /\ call.result.calls = 1)

\* C17 witness: the request for an assembled prompt failed
C17_Witness ==
    /\ call.returned
    /\ Len(call.arg) > 2
    /\ ~call.env.ok
    /\ call.result.kind = "Exception"

\* the step is a call of fn for an email whose registration had succeeded
C18_Later(fn) ==
    /\ call' # call
    /\ call'.fn = fn
    /\ call'.arg.email \in DOMAIN registered

C19_Acts(p) == pc'[p] # pc[p]

\* the X-User-Id of the request thread p is working on in the step
C19_User(p) == IF pc[p] = "idle" THEN req'[p].user ELSE req[p].user

\* the ids of the messages user u holds
C19_MessageIds(u) ==
    UNION {{conversation_messages[u][c][i].id :
              i \in 1..Len(conversation_messages[u][c])} :
           c \in DOMAIN Convs(conversation_messages, u)}

\* the request begun in the step names an id that exists under another user
\* and not under its own
C19_Foreign(p) ==
    /\ pc[p] = "idle" /\ pc'[p] # "idle"
    /\ req'[p].user \in Users
    /\ req'[p].cid \notin DOMAIN Convs(conversation_metadata, req'[p].user)
    /\ req'[p].cid \notin DOMAIN Convs(conversation_messages, req'[p].user)
    /\ \E b \in Users \ {req'[p].user} :
         req'[p].cid \in DOMAIN Convs(conversation_metadata, b)

\* C19: a step of a chat request made with X-User-Id = A leaves the
\* conversations, messages, titles and timestamps of every other user as they
\* were, and a response to A carries no message of another user; with a
\* conversation id that exists only under another user, get, delete and clear
\* answer 404 and send goes on to create a conversation under A.
C19_Ownership ==
    [][\A p \in Procs :
         C19_Acts(p) =>
           /\ \A b \in Users \ {C19_User(p)} :
                /\ Convs(conversation_metadata', b) = Convs(conversation_metadata, b)
                /\ Convs(conversation_messages', b) = Convs(conversation_messages, b)
                /\ \A i \in 1..Len(resp'[p].messages) :
                     resp'[p].messages[i].id \notin C19_MessageIds(b)
                /\ resp'[p].message.id \notin C19_MessageIds(b)
                /\ \A i \in 1..Len(resp'[p].summaries) :
                     resp'[p].summaries[i].id
                       \notin DOMAIN Convs(conversation_metadata, b)
           /\ C19_Foreign(p) =>
                /\ req'[p].op \in {"get", "delete", "clear"} =>
                     (pc'[p] = "done" /\ resp'[p].status = 404)
                /\ req'[p].op = "send" => pc'[p] = "create_meta"]_vars

\* C19 witness: a conversation was created for a send that named a
\* conversation of the other user, which still holds its messages
C19_Witness ==
    \E p \in Procs :
      /\ pc[p] = "create_msgs" /\ req[p].op = "send"
      /\ \E b \in Users \ {req[p].user} :
           /\ req[p].cid \in DOMAIN Convs(conversation_messages, b)
           /\ Len(conversation_messages[b][req[p].cid]) = 2

\* no handler stands between its first step and its return
C20_Quiet == \A p \in Procs : pc[p] \in {"idle", "done"}

\* C20: whenever no request is in progress, a conversation id is a key of a
\* user's message map exactly when it is a key of that user's metadata map,
\* after every interleaving of requests.
C20_SameKeys ==
    C20_Quiet =>
      \A u \in Users :
        DOMAIN Convs(conversation_messages, u) = DOMAIN Convs(conversation_metadata, u)

=============================================================================
